---- MODULE Spec2Model ----
(***************************************************************************)
(* Deployment progress tracker of the dashboard client: the ProjectContext *)
(* resource cache (getProjectById with its in-flight ledger loadingRef,    *)
(* fetchProjects, rebuildProject, deleteProject, updateProjectStatus), the *)
(* route-change cancellation of AppContent, the ProjectDetails view and    *)
(* the LogViewer poller.                                                   *)
(*                                                                         *)
(* One step of the model is one task of the JavaScript event loop: a       *)
(* handler runs to its first pending network await, or a response is       *)
(* processed together with every continuation (microtask) that it wakes.   *)
(* React commits pending state updates in the step `render`, which also    *)
(* runs the effects whose dependencies changed.                            *)
(*                                                                         *)
(* The handlers are written as operators from a client state record to a   *)
(* client state record, so that a continuation that calls another handler  *)
(* is the composition of the two.                                          *)
(***************************************************************************)
EXTENDS Integers, Sequences, FiniteSets, TLC

\* ------------------------------------------------------------------ bounds
MaxProjects == 2
MaxJobId == 3
MaxCalls == 4
MaxReqs == 4
MaxAppCalls == 3
MaxMounts == 2
MaxLogs == 2

ProjectIds == 1..MaxProjects
\* the projects whose page the user visits
ViewedIds == {1}
JobIds == 1..MaxJobId
Terminal == {"success", "failure"}
Failures == {"app", "net"}

\* the value `null` of a project
NullProject == [id |-> 0, deployments |-> <<>>]

VARIABLES
    projects,           \* ProjectProvider state `projects` (list of Project)
    rendered,           \* the `projects` closed over by the last provider render
    renderPending,      \* a provider state update waits for its render
    projectsChanged,    \* setProjects ran since the last render (new getProjectById)
    viewPending,        \* a ProjectDetails state update waits for its render
    isLoading,          \* ProjectProvider state `isLoading`
    error,              \* ProjectProvider state `error` ("none" = null)
    loadingRef,         \* loadingRef.current: project id -> request (0 = absent)
    axiosCancelTokens,  \* window.axiosCancelTokens: calls whose cancel is listed
    calls,              \* every getProjectById call made so far
    reqs,               \* every HTTP request issued so far
    pd,                 \* the ProjectDetails instance on screen
    pdCount,            \* ProjectDetails instances mounted so far
    lv,                 \* the LogViewer instance on screen
    lvCount,            \* LogViewer instances mounted so far
    lvDone,             \* LogViewer instances whose doneDetectedRef is true
    lvSignals,          \* instance -> updateProjectStatus invocations it made
    dm,                 \* the DeploymentModal instance on screen
    dmCount,            \* DeploymentModal instances mounted so far
    intervals,          \* the live setInterval timers: <<component, instance>>
    srvExists,          \* server: the projects that exist
    srvDeps,            \* server: project id -> deployments, latest first
    srvLogs,            \* server: deployment id -> log entries
    nextJob,            \* server: next fresh deployment id
    detLogs,            \* a list of log entries handed to the detectors
    detOut              \* what the completion detectors returned for it

clientVars == <<projects, rendered, renderPending, projectsChanged, viewPending,
                isLoading, error, loadingRef, axiosCancelTokens, calls, reqs,
                pd, pdCount, lv, lvCount, lvDone, lvSignals, dm, dmCount,
                intervals>>
srvVars == <<srvExists, srvDeps, srvLogs, nextJob>>
detVars == <<detLogs, detOut>>
vars == <<clientVars, srvVars, detVars>>

\* the client state as one record; `ok` turns FALSE when a handler would
\* exceed a bound of the model, which disables the step
Cur ==
    [projects |-> projects, rendered |-> rendered,
     renderPending |-> renderPending, projectsChanged |-> projectsChanged,
     viewPending |-> viewPending, isLoading |-> isLoading, error |-> error,
     loadingRef |-> loadingRef, axiosCancelTokens |-> axiosCancelTokens,
     calls |-> calls, reqs |-> reqs, pd |-> pd, pdCount |-> pdCount,
     lv |-> lv, lvCount |-> lvCount, lvDone |-> lvDone,
     lvSignals |-> lvSignals, dm |-> dm, dmCount |-> dmCount,
     intervals |-> intervals, ok |-> TRUE]

Becomes(s) ==
    /\ s.ok
    /\ projects' = s.projects
    /\ rendered' = s.rendered
    /\ renderPending' = s.renderPending
    /\ projectsChanged' = s.projectsChanged
    /\ viewPending' = s.viewPending
    /\ isLoading' = s.isLoading
    /\ error' = s.error
    /\ loadingRef' = s.loadingRef
    /\ axiosCancelTokens' = s.axiosCancelTokens
    /\ calls' = s.calls
    /\ reqs' = s.reqs
    /\ pd' = s.pd
    /\ pdCount' = s.pdCount
    /\ lv' = s.lv
    /\ lvCount' = s.lvCount
    /\ lvDone' = s.lvDone
    /\ lvSignals' = s.lvSignals
    /\ dm' = s.dm
    /\ dmCount' = s.dmCount
    /\ intervals' = s.intervals

\* ----------------------------------------------------------- pure helpers
\* A JavaScript string is the sequence of its characters; the empty
\* sequence also stands for an absent (undefined) field, which the
\* detectors treat like "".
sDone == <<"d", "o", "n", "e">>
sCompleted ==
    <<"c", "o", "m", "p", "l", "e", "t", "e", "d", " ",
      "s", "u", "c", "c", "e", "s", "s", "f", "u", "l", "l", "y">>
sError == <<"e", "r", "r", "o", "r">>
sInfo == <<"i", "n", "f", "o">>

\* the log entries the server of the model writes
LogEntry(message, log) == [message |-> message, log |-> log]
DoneEntry == LogEntry(sDone, <<>>)
ErrorEntry == LogEntry(sError, <<>>)
InfoEntry == LogEntry(sInfo, <<>>)

lowerChar(c) ==
    CASE c = "C" -> "c" [] c = "D" -> "d" [] c = "E" -> "e"
      [] c = "N" -> "n" [] c = "O" -> "o" [] c = "S" -> "s"
      [] OTHER -> c

\* String.prototype.toLowerCase
RECURSIVE toLowerCase(_)
toLowerCase(str) ==
    IF str = <<>> THEN <<>>
    ELSE <<lowerChar(Head(str))>> \o toLowerCase(Tail(str))

\* String.prototype.includes
includes(str, sub) ==
    \E i \in 0..(Len(str) - Len(sub)) : SubSeq(str, i + 1, i + Len(sub)) = sub

Has(list, p) == \E i \in 1..Len(list) : list[i].id = p

\* Array.prototype.find by id (NullProject = undefined)
Find(list, p) ==
    IF Has(list, p)
    THEN list[CHOOSE i \in 1..Len(list) :
                 /\ list[i].id = p
                 /\ \A j \in 1..(i - 1) : list[j].id # p]
    ELSE NullProject

\* setProjects updater of getProjectById: replace by id, else append
RECURSIVE upsertProject(_, _)
upsertProject(prevProjects, projectData) ==
    IF ~Has(prevProjects, projectData.id)
    THEN Append(prevProjects, projectData)
    ELSE LET n == Len(prevProjects)
             front == SubSeq(prevProjects, 1, n - 1)
         IN  IF prevProjects[n].id # projectData.id
             THEN Append(upsertProject(front, projectData), prevProjects[n])
             ELSE IF Has(front, projectData.id)
             THEN Append(upsertProject(front, projectData), projectData)
             ELSE Append(front, projectData)

\* setProjects updater of deleteProject
removeProject(prev, p) == SelectSeq(prev, LAMBDA x : x.id # p)

\* [{...deployments[0], id, status}, ...deployments.slice(1)]; newId = 0
\* leaves the id as it is
patchFirst(deployments, newId, status) ==
    IF Len(deployments) = 0
    THEN <<[id |-> newId, status |-> status]>>
    ELSE <<[id |-> IF newId = 0 THEN deployments[1].id ELSE newId,
            status |-> status]>> \o Tail(deployments)

\* setProjects updater of updateProjectStatus
RECURSIVE setStatus(_, _, _)
setStatus(prevProjects, p, status) ==
    IF prevProjects = <<>> THEN <<>>
    ELSE LET project == Head(prevProjects) IN
         <<IF project.id = p
           THEN [project EXCEPT !.deployments = patchFirst(@, 0, status)]
           ELSE project>> \o setStatus(Tail(prevProjects), p, status)

\* setProjects updater of rebuildProject
RECURSIVE setRebuilt(_, _, _)
setRebuilt(prev, p, newDeploymentId) ==
    IF prev = <<>> THEN <<>>
    ELSE LET project == Head(prev) IN
         <<IF project.id = p
           THEN [project EXCEPT
                   !.deployments = patchFirst(@, newDeploymentId, "running")]
           ELSE project>> \o setRebuilt(Tail(prev), p, newDeploymentId)

\* project?.deployments?.[0]?.id (0 = undefined)
latestId(project) ==
    IF Len(project.deployments) = 0 THEN 0 ELSE project.deployments[1].id

\* project?.deployments?.[0]?.status ("none" = undefined)
latestStatus(project) ==
    IF Len(project.deployments) = 0 THEN "none"
    ELSE project.deployments[1].status

\* the server's list of projects, by id
RECURSIVE srvList(_, _, _)
srvList(p, exists, deps) ==
    IF p > MaxProjects THEN <<>>
    ELSE (IF p \in exists THEN <<[id |-> p, deployments |-> deps[p]]>>
          ELSE <<>>) \o srvList(p + 1, exists, deps)

\* an HTTP request: kind is "get" (GET /project/{p}), "list" (GET /projects),
\* "delete" (DELETE /project/{p}), "redeploy" (POST /redeploy {arg}) or
\* "logs" (GET /logs/{arg}); owner is the getProjectById call, the
\* ProjectDetails instance or the LogViewer instance that awaits it
NewReq(kind, p, owner, arg, who) ==
    [kind |-> kind, p |-> p, owner |-> owner, arg |-> arg, who |-> who,
     seen |-> <<>>, state |-> "sent", resp |-> "none",
     project |-> NullProject, list |-> <<>>, jobId |-> 0, logs |-> <<>>]

\* a request that is over keeps its kind and project only
Finished(r, how) ==
    [NewReq(r.kind, r.p, 0, 0, [tag |-> "app", gen |-> 0, dep |-> 0]) EXCEPT
        !.state = how]

Outstanding(r) == r.state \in {"sent", "answered"}

\* one more request leaves the client
send(s, r) ==
    IF Len(s.reqs) < MaxReqs THEN [s EXCEPT !.reqs = Append(@, r)]
    ELSE [s EXCEPT !.ok = FALSE]

\* the provider state setters; a changed state schedules a render
setIsLoading(s, b) ==
    [s EXCEPT !.isLoading = b, !.renderPending = @ \/ (s.isLoading # b)]

setError(s, e) ==
    [s EXCEPT !.error = e, !.renderPending = @ \/ (s.error # e)]

setProjects(s, list) ==
    [s EXCEPT !.projects = list, !.renderPending = TRUE,
              !.projectsChanged = TRUE]

NoPd ==
    [gen |-> 0, id |-> 0, project |-> NullProject, isLoading |-> TRUE,
     error |-> "none", isDeleted |-> FALSE, lock |-> FALSE,
     rebuildLoading |-> FALSE, interval |-> FALSE, url |-> 0,
     seen |-> <<>>]

NoLv ==
    [inst |-> 0, dep |-> 0, pid |-> 0, logs |-> <<>>, isLoading |-> TRUE,
     error |-> "none", pollingActive |-> TRUE, pollingRef |-> FALSE]

\* a DeploymentModal that is not mounted; pollingInterval 0 is the null of
\* the ref, otherwise the period of the timer in ms
NoDm ==
    [inst |-> 0, projectId |-> 0, deploymentId |-> 0,
     isInitialLoading |-> TRUE, pollingInterval |-> 0, pollCount |-> 0,
     logs |-> <<>>, lastLogCount |-> 0, deploymentFinished |-> FALSE,
     error |-> "none"]

\* ------------------------------------------------------------------- Init
NoOut == [ran |-> FALSE, isDone |-> FALSE, hasDoneLog |-> FALSE]

InitClient ==
    /\ projects = <<>>
    /\ rendered = <<>>
    /\ renderPending = FALSE
    /\ projectsChanged = FALSE
    /\ viewPending = FALSE
    /\ isLoading = FALSE
    /\ error = "none"
    /\ loadingRef = [p \in ProjectIds |-> 0]
    /\ axiosCancelTokens = {}
    /\ calls = <<>>
    /\ reqs = <<>>
    /\ pd = NoPd
    /\ pdCount = 0
    /\ lv = NoLv
    /\ lvCount = 0
    /\ lvDone = {}
    /\ lvSignals = [i \in 1..MaxMounts |-> 0]
    /\ dm = NoDm
    /\ dmCount = 0
    /\ intervals = {}

\* every project exists on the server with one running deployment
InitApp ==
    /\ InitClient
    /\ srvExists = ProjectIds
    /\ srvDeps = [p \in ProjectIds |-> <<[id |-> p, status |-> "running"]>>]
    /\ srvLogs = [d \in JobIds |-> <<>>]
    /\ nextJob = MaxProjects + 1

Init == InitApp /\ detLogs = <<>> /\ detOut = NoOut

\* the user has one project so far (project 1, its deployment running)
InitOps ==
    /\ InitClient
    /\ srvExists = {1}
    /\ srvDeps = [p \in ProjectIds |->
                    IF p = 1 THEN <<[id |-> 1, status |-> "running"]>>
                    ELSE <<>>]
    /\ srvLogs = [d \in JobIds |-> <<>>]
    /\ nextJob = 2
    /\ detLogs = <<>> /\ detOut = NoOut

\* ------------------------------------------- getProjectById (the context)
\* who awaits a context call: tag "app" is any caller outside ProjectDetails,
\* "load", "refresh", "rebuild" and "delete" are the ProjectDetails callers of
\* instance gen; dep is the deploymentId handleRebuild got from rebuildProject
Who(tag, gen, dep) == [tag |-> tag, gen |-> gen, dep |-> dep]
App == Who("app", 0, 0)

NewCall(p, role, req, who) ==
    [id |-> p, role |-> role, req |-> req, who |-> who, outcome |-> "pending",
     val |-> NullProject, err |-> "none"]

\* a write into the first deployment of every project of the list
RECURSIVE markRunningAll(_, _)
markRunningAll(list, refreshedProject) ==
    IF list = <<>> THEN <<>>
    ELSE <<[Head(list) EXCEPT !.deployments = patchFirst(@, 0, "running")]>>
         \o markRunningAll(Tail(list), refreshedProject)

\* refreshedProject.deployments[0].status = "running": the assignment writes
\* into the object getProjectById returned. Objects are values here, so the
\* entries of a list that are that object are taken to be the entries
\* equal to it
RECURSIVE markRunning(_, _)
markRunning(list, refreshedProject) ==
    IF list = <<>> THEN <<>>
    ELSE <<IF Head(list) = refreshedProject
           THEN [Head(list) EXCEPT
                   !.deployments = patchFirst(@, 0, "running")]
           ELSE Head(list)>> \o markRunning(Tail(list), refreshedProject)

\* a ProjectDetails caller resumes after its getProjectById call c settled
pdContinue(s, c) ==
    LET call == s.calls[c]
        tag == call.who.tag
        live == s.pd.gen # 0 /\ s.pd.gen = call.who.gen
        failed == call.outcome = "error"
        val == IF call.outcome = "value" THEN call.val ELSE NullProject
        forced == IF Len(val.deployments) = 0 THEN val
                  ELSE [val EXCEPT !.deployments =
                            patchFirst(@, 0, "running")]
        \* the returned object is in the cache (a fetched project was put
        \* there, a cached one came from there), and a cached one is in the
        \* list the provider closed over; no state setter runs
        t == IF tag = "rebuild" /\ ~failed /\ Len(val.deployments) > 0
             THEN [s EXCEPT
                     !.projects = markRunning(@, val),
                     !.rendered = IF call.role = "cached"
                                  THEN markRunning(@, val) ELSE @]
             ELSE s
    IN  IF tag = "app" \/ ~live THEN t
        ELSE IF tag = "load"
        THEN \* loadProject, after the await
             [s EXCEPT !.viewPending = TRUE,
                       !.pd = [@ EXCEPT
                          !.project = IF failed \/ s.pd.isDeleted THEN @
                                      ELSE val,
                          !.error = IF failed THEN call.err ELSE @,
                          !.isLoading = FALSE,
                          !.lock = FALSE]]
        ELSE IF tag = "refresh"
        THEN \* the refreshInterval callback, after the await
             IF failed THEN s
             ELSE [s EXCEPT !.viewPending = TRUE, !.pd.project = val]
        ELSE \* handleRebuild, after its second await
             IF failed
             THEN [s EXCEPT !.viewPending = TRUE,
                            !.pd.rebuildLoading = FALSE]
             ELSE [t EXCEPT !.viewPending = TRUE,
                            !.pd = [@ EXCEPT
                               !.project = forced,
                               !.url = IF call.who.dep # 0 THEN call.who.dep
                                       ELSE @,
                               !.rebuildLoading = FALSE]]

\* the promise a call is handed when loadingRef.current[p] is set
dedupTarget(s, p) == s.loadingRef[p]

\* one getProjectById(p) call up to its first pending await; `seen` is the
\* projects list closed over by the getProjectById the caller holds
getProjectByIdCall(s, p, who, seen) ==
    LET c == Len(s.calls) + 1 IN
    IF ~s.ok \/ Len(s.calls) >= MaxCalls THEN [s EXCEPT !.ok = FALSE]
    ELSE IF s.loadingRef[p] # 0
    THEN \* hand out the pending promise; the cancel function pushed before
         \* stays in window.axiosCancelTokens
         [s EXCEPT !.calls = Append(@, NewCall(p, "dedup", dedupTarget(s, p),
                                               who)),
                   !.axiosCancelTokens = @ \cup {c}]
    ELSE IF Has(seen, p)
    THEN \* the closure's projects hold it: the call settles in this task,
         \* its finally block included
         LET s1 == setIsLoading(s, TRUE)
             s2 == [s1 EXCEPT !.calls = Append(@,
                       [NewCall(p, "cached", 0, who) EXCEPT
                           !.outcome = "value", !.val = Find(seen, p)])]
         IN  pdContinue(setIsLoading(s2, FALSE), c)
    ELSE IF Len(s.reqs) >= MaxReqs THEN [s EXCEPT !.ok = FALSE]
    ELSE \* GET /project/{p}, remembered in the ledger
         LET s1 == send(setIsLoading(s, TRUE), NewReq("get", p, c, 0, who))
         IN  [s1 EXCEPT !.calls = Append(@, NewCall(p, "init",
                                                    Len(s.reqs) + 1, who)),
                        !.loadingRef[p] = Len(s.reqs) + 1,
                        !.axiosCancelTokens = @ \cup {c}]

\* every call awaiting request k gets the outcome
RECURSIVE settleCalls(_, _, _, _, _)
settleCalls(cs, k, o, val, err) ==
    IF cs = <<>> THEN <<>>
    ELSE LET c == Head(cs) IN
         <<IF c.req = k /\ c.outcome = "pending"
           THEN [c EXCEPT !.outcome = o, !.val = val, !.err = err]
           ELSE c>> \o settleCalls(Tail(cs), k, o, val, err)

\* a finally block that leaves the ledger entry in place
finallyKeepsLedger(s, p, owner) ==
    [setIsLoading(s, FALSE) EXCEPT !.axiosCancelTokens = @ \ {owner}]

\* the finally block of the initiating call
finallyGet(s, p, owner) ==
    LET s1 == setIsLoading(s, FALSE) IN
    [s1 EXCEPT !.loadingRef[p] = 0,
               !.axiosCancelTokens = @ \ {owner}]

\* the callers among calls c..n that were waiting on request k resume
RECURSIVE resume(_, _, _, _)
resume(s, before, k, c) ==
    IF c > Len(before) THEN s
    ELSE resume(IF before[c].req = k /\ before[c].outcome = "pending"
                THEN pdContinue(s, c) ELSE s,
                before, k, c + 1)

\* the response of GET /project/{p} (request k) is processed
settleGet(s, k) ==
    LET r == s.reqs[k]
        good == r.resp = "ok"
        s1 == IF good
              THEN setProjects(s, upsertProject(s.projects, r.project))
              ELSE setError(s, r.resp)
        s2 == [s1 EXCEPT
                 !.calls = settleCalls(@, k, IF good THEN "value" ELSE "error",
                                       r.project, r.resp),
                 !.reqs[k] = Finished(@, "settled")]
    IN  resume(finallyGet(s2, r.p, r.owner), s.calls, k, 1)

\* the cancel function of call c is invoked: its own request is aborted
cancelOne(s, c) ==
    LET k == s.calls[c].req IN
    IF s.calls[c].role # "init" \/ ~Outstanding(s.reqs[k]) THEN s
    ELSE LET awaiting == settleCalls(s.calls, k, "error", NullProject,
                                     "cancel")
             s1 == [s EXCEPT
                      !.calls = [awaiting EXCEPT ![c].outcome = "null",
                                                 ![c].err = "none"],
                      !.reqs[k] = Finished(@, "cancelled")]
         IN  resume(finallyGet(s1, s.calls[c].id, c), s.calls, k, 1)

\* window.axiosCancelTokens.forEach(cancel => cancel(...))
RECURSIVE cancelAll(_, _, _)
cancelAll(s, tokens, c) ==
    IF ~s.ok \/ c > Len(s.calls) THEN s
    ELSE cancelAll(IF c \in tokens THEN cancelOne(s, c) ELSE s, tokens, c + 1)

\* ------------------------------------------------ the other context calls
\* fetchProjects up to its await (a token is present)
fetchProjectsCall(s) ==
    send(setIsLoading(s, TRUE), NewReq("list", 0, 0, 0, App))

\* the response of GET /projects (request k) is processed
settleList(s, k) ==
    LET r == s.reqs[k]
        s1 == IF r.resp = "ok" THEN setProjects(s, r.list)
              ELSE setError(s, r.resp)
    IN  setIsLoading([s1 EXCEPT !.reqs[k] = Finished(@, "settled")], FALSE)

\* createProject up to its first await: POST /project
createProjectCall(s, who) ==
    send(setIsLoading(s, TRUE), NewReq("create", 0, 0, 0, who))

\* createProject after POST /project (request k): POST /deploy for the new
\* project, or the throw
createProjectDone(s, k) ==
    LET r == s.reqs[k]
        s0 == [s EXCEPT !.reqs[k] = Finished(@, "settled")]
    IN  IF r.resp = "ok"
        THEN send(s0, NewReq("deploy", r.project.id, 0, 0, r.who))
        ELSE setIsLoading(setError(s0, r.resp), FALSE)

\* {...newProject, deployments: [{id: deploymentId, status: "running"}]}
projectWithStatus(newProjectId, deploymentId) ==
    [id |-> newProjectId,
     deployments |-> <<[id |-> deploymentId, status |-> "running"]>>]

\* createProject after POST /deploy (request k), up to its return or throw
createProjectDeployed(s, k) ==
    LET r == s.reqs[k]
        s1 == IF r.resp = "ok"
              THEN setProjects(s, Append(s.projects,
                                         projectWithStatus(r.p, r.jobId)))
              ELSE setError(s, r.resp)
    IN  setIsLoading([s1 EXCEPT !.reqs[k] = Finished(@, "settled")], FALSE)

\* updateProjectStatus(p, status)
updateProjectStatus(s, p, status) ==
    setProjects(s, setStatus(s.projects, p, status))

\* deleteProject(p) up to its await
deleteProjectCall(s, p, who) ==
    send(setIsLoading(s, TRUE), NewReq("delete", p, 0, 0, who))

\* the ledger after deleteProject's "clean up any cached loading promises"
deleteLedger(ledger, p) == [ledger EXCEPT ![p] = 0]

\* a deleteProject that drops the project whatever the response says
deleteProjectEager(s, k) ==
    LET r == s.reqs[k]
        s1 == [setProjects(s, removeProject(s.projects, r.p)) EXCEPT
                  !.loadingRef = deleteLedger(@, r.p)]
        s2 == IF r.resp = "ok" THEN s1 ELSE setError(s1, r.resp)
    IN  setIsLoading([s2 EXCEPT !.reqs[k] = Finished(@, "settled")], FALSE)

\* deleteProject(p) after its await (request k), up to its return or throw
deleteProjectDone(s, k) ==
    LET r == s.reqs[k]
        s1 == IF r.resp = "ok"
              THEN [setProjects(s, removeProject(s.projects, r.p)) EXCEPT
                       !.loadingRef = deleteLedger(@, r.p)]
              ELSE setError(s, r.resp)
    IN  setIsLoading([s1 EXCEPT !.reqs[k] = Finished(@, "settled")], FALSE)

\* rebuildProject(p) up to its await, or to its throw when the closure's
\* projects (seen) hold no deployment for p: thrown tells which
rebuildProjectCall(s, p, who, seen) ==
    LET deploymentId == latestId(Find(seen, p))
        s1 == setIsLoading(s, TRUE)
    IN  IF deploymentId = 0
        THEN setIsLoading(setError(s1, "nodeployment"), FALSE)
        ELSE send(s1, [NewReq("redeploy", p, 0, deploymentId, who) EXCEPT
                          !.seen = seen])

\* response.data.data?.deployment_id || deploymentId
newDeploymentId(r) == IF r.jobId # 0 THEN r.jobId ELSE r.arg

\* rebuildProject after its await (request k), up to its return or throw
rebuildProjectDone(s, k) ==
    LET r == s.reqs[k]
        s1 == IF r.resp = "ok"
              THEN setProjects(s, setRebuilt(s.projects, r.p,
                                             newDeploymentId(r)))
              ELSE setError(s, r.resp)
    IN  setIsLoading([s1 EXCEPT !.reqs[k] = Finished(@, "settled")], FALSE)

\* ------------------------------------------------------------- LogViewer
\* newLogs.some(log => { message = (log.message || log.log || "")
\* .toLowerCase(); return message.includes("done") ||
\* message.includes("completed successfully") })
isDone(newLogs) ==
    \E i \in 1..Len(newLogs) :
        LET log == newLogs[i]
            message == toLowerCase(IF log.message # <<>> THEN log.message
                                   ELSE log.log)
        IN  includes(message, sDone) \/ includes(message, sCompleted)

\* fetchLogs up to its await: GET /logs/{deploymentId}
fetchLogs(s) ==
    send(s, NewReq("logs", s.lv.pid, s.lv.inst, s.lv.dep, App))

\* the body of the LogViewer effect
lvEffect(s) ==
    IF s.lv.dep = 0 THEN [s EXCEPT !.lv.isLoading = FALSE]
    ELSE [fetchLogs(s) EXCEPT !.lv.pollingRef = TRUE,
                              !.intervals = @ \cup {<<"lv", s.lv.inst>>}]

\* a cleanup that drops the ref and leaves the interval running
lvCleanupKeeps(s) == [s EXCEPT !.lv.pollingRef = FALSE]

\* the cleanup of the LogViewer effect
lvCleanup(s) ==
    IF s.lv.pollingRef
    THEN [s EXCEPT !.lv.pollingRef = FALSE,
                   !.intervals = @ \ {<<"lv", s.lv.inst>>}]
    ELSE s

\* a LogViewer is mounted with props deploymentId = d, projectId = p
lvMount(s, d, p) ==
    IF s.lvCount >= MaxMounts THEN [s EXCEPT !.ok = FALSE]
    ELSE lvEffect([s EXCEPT !.lvCount = @ + 1,
                            !.lv = [NoLv EXCEPT !.inst = s.lvCount + 1,
                                                !.dep = d, !.pid = p]])

lvUnmount(s) == [s EXCEPT !.lv = NoLv]

\* (log.message || log.log || "").toLowerCase().includes("error"): the
\* entries the log view paints red
hasErrorLog(newLogs) ==
    \E i \in 1..Len(newLogs) :
        LET log == newLogs[i]
        IN  includes(toLowerCase(IF log.message # <<>> THEN log.message
                                 ELSE log.log), sError)

\* a completion check that also takes an error entry for the end
signalsOnError(s, r) ==
    (isDone(r.logs) \/ hasErrorLog(r.logs)) /\ r.owner \notin s.lvDone /\ r.p # 0

\* a completion check that ignores doneDetectedRef
signalsUnlatched(s, r) == isDone(r.logs) /\ r.p # 0

\* whether this response makes fetchLogs signal completion
signals(s, r) == isDone(r.logs) /\ r.owner \notin s.lvDone /\ r.p # 0

\* fetchLogs after its await (request k); the state setters of an instance
\* that is no longer mounted do nothing, its refs and the context still work
fetchLogsDone(s, k) ==
    LET r == s.reqs[k]
        live == s.lv.inst = r.owner
        s0 == [s EXCEPT !.reqs[k] = Finished(@, "settled")]
        s1 == IF live /\ r.resp = "ok" THEN [s0 EXCEPT !.lv.logs = r.logs]
              ELSE s0
        s2 == IF r.resp = "ok" /\ signals(s, r)
              THEN LET t == updateProjectStatus(
                               [s1 EXCEPT !.lvDone = @ \cup {r.owner},
                                          !.lvSignals[r.owner] = @ + 1],
                               r.p, "success")
                   IN  IF live THEN lvCleanup([t EXCEPT
                                                  !.lv.pollingActive = FALSE])
                       ELSE t
              ELSE s1
    IN  IF ~live THEN s2
        ELSE IF r.resp = "ok" THEN [s2 EXCEPT !.lv.isLoading = FALSE]
        ELSE [s2 EXCEPT !.lv.isLoading = FALSE, !.lv.error = r.resp]

\* ------------------------------------------- AppContent and ProjectDetails
\* the route-change effect of AppContent: every listed cancel function is
\* invoked and the list is replaced by an empty one
routeChange(s) ==
    [cancelAll(s, s.axiosCancelTokens, 1) EXCEPT !.axiosCancelTokens = {}]

\* the main view of ProjectDetails is on screen (not the skeleton, not
\* "Project Not Found", not the error view)
pdShowsMain(d) ==
    d.gen # 0 /\ ~d.isLoading /\ d.project # NullProject /\ d.error = "none"

\* the deploymentId ProjectDetails hands to its LogViewer (0 = no LogViewer)
wantedDep(d) ==
    IF ~pdShowsMain(d) THEN 0
    ELSE IF d.url # 0 THEN d.url ELSE latestId(d.project)

\* whether the polling effect of ProjectDetails keeps a refreshInterval
wantsInterval(d) ==
    d.project # NullProject /\ latestStatus(d.project) = "running"

\* effect 1 of ProjectDetails with loadProject up to its await
loadProject(s, seen) ==
    IF s.pd.lock \/ s.pd.isDeleted THEN s
    ELSE getProjectByIdCall(
             [s EXCEPT !.pd.lock = TRUE, !.pd.isLoading = TRUE,
                       !.viewPending = TRUE],
             s.pd.id, Who("load", s.pd.gen, 0), seen)

\* the cleanup of effect 2 of ProjectDetails: clearInterval(refreshInterval)
pdCleanup(s) ==
    [s EXCEPT !.pd.interval = FALSE, !.intervals = @ \ {<<"pd", s.pd.gen>>}]

\* effect 2 of ProjectDetails: its cleanup, then a refreshInterval when the
\* project it holds is running
pdPolling(s) ==
    IF wantsInterval(s.pd)
    THEN [pdCleanup(s) EXCEPT !.pd.interval = TRUE,
                              !.intervals = @ \cup {<<"pd", s.pd.gen>>}]
    ELSE pdCleanup(s)

\* ProjectDetails and its LogViewer leave the screen (effect cleanups)
pdLeave(s) == [pdCleanup(lvCleanup(s)) EXCEPT !.pd = NoPd, !.lv = NoLv]

\* ProjectDetails mounts for /project/{p}?deploymentId={u} and its effect 1
\* runs
mountProjectDetails(s, p, u) ==
    IF s.pdCount >= MaxMounts THEN [s EXCEPT !.ok = FALSE]
    ELSE LET s1 == [s EXCEPT !.pdCount = @ + 1,
                             !.viewPending = TRUE,
                             !.pd = [NoPd EXCEPT !.gen = s.pdCount + 1,
                                                 !.id = p, !.url = u]]
         IN  loadProject(s1, s.rendered)

\* navigation from the dashboard to /project/{p}: the mount effects of
\* ProjectDetails run before the route-change effect of AppContent
navigateToProject(s, p, u) == routeChange(mountProjectDetails(s, p, u))

\* navigation to /dashboard: the Dashboard mount effect calls fetchProjects
navigateToDashboard(s) == routeChange(fetchProjectsCall(pdLeave(s)))

\* the refreshInterval callback up to its await
refreshTick(s) ==
    getProjectByIdCall(s, s.pd.id, Who("refresh", s.pd.gen, 0), s.rendered)

\* handleRebuild up to its first await, or to its end when rebuildProject
\* throws before sending
handleRebuild(s) ==
    LET s1 == [s EXCEPT !.viewPending = TRUE,
                        !.pd.rebuildLoading = TRUE,
                        !.pd.project.deployments = patchFirst(@, 0, "running")]
        s2 == rebuildProjectCall(s1, s.pd.project.id,
                                 Who("rebuild", s.pd.gen, 0), s.rendered)
    IN  IF latestId(Find(s.rendered, s.pd.project.id)) = 0
        THEN [s2 EXCEPT !.pd.rebuildLoading = FALSE]
        ELSE s2

\* handleRebuild after rebuildProject (request r) returned or threw
handleRebuildResume(s, r) ==
    LET live == s.pd.gen # 0 /\ s.pd.gen = r.who.gen
    IN  IF r.resp = "ok"
        THEN getProjectByIdCall(s, r.p,
                 Who("rebuild", r.who.gen, newDeploymentId(r)), r.seen)
        ELSE IF live
        THEN [s EXCEPT !.viewPending = TRUE, !.pd.rebuildLoading = FALSE]
        ELSE s

\* handleDeleteProject up to its await (the user confirmed)
handleDeleteProject(s) ==
    deleteProjectCall([s EXCEPT !.pd.isDeleted = TRUE], s.pd.id,
                      Who("delete", s.pd.gen, 0))

\* handleDeleteProject after deleteProject (request r) returned or threw
handleDeleteResume(s, r) ==
    LET live == s.pd.gen # 0 /\ s.pd.gen = r.who.gen
    IN  IF r.resp = "ok"
        THEN navigateToDashboard(cancelAll(s, s.axiosCancelTokens, 1))
        ELSE IF live
        THEN [s EXCEPT !.viewPending = TRUE, !.pd.error = r.resp]
        ELSE s

\* React commits the pending updates: the provider closes over the current
\* projects, ProjectDetails mounts, keeps or unmounts its LogViewer, and
\* the effects whose dependencies changed run, children first. `flash`
\* tells whether the skeleton got rendered between setIsLoading(true) and
\* the resumption of a loadProject that found the project cached
render(s, flash) ==
    LET provider == s.renderPending
        s1 == [s EXCEPT !.rendered = s.projects, !.renderPending = FALSE,
                        !.projectsChanged = FALSE, !.viewPending = FALSE]
        want == wantedDep(s.pd)
        kept == s.lv.inst # 0 /\ s.lv.dep = want
        s2 == IF s.lv.inst # 0 /\ ~kept THEN lvUnmount(lvCleanup(s1)) ELSE s1
        s3 == IF want # 0 /\ ~kept THEN lvMount(s2, want, s.pd.id)
              ELSE IF kept /\ provider THEN lvEffect(lvCleanup(s2))
              ELSE s2
        s4 == IF s.pd.gen # 0
              THEN pdPolling(s3)
              ELSE s3
        reload == s.pd.gen # 0 /\ provider /\ s.projectsChanged
        s5 == IF reload THEN loadProject(s4, s.projects) ELSE s4
        flashed == /\ flash /\ reload /\ s5.lv.inst # 0
                   /\ ~s5.pd.isLoading /\ Len(s5.calls) > Len(s4.calls)
    IN  IF flashed
        THEN [lvUnmount(lvCleanup(s5)) EXCEPT !.viewPending = TRUE]
        ELSE s5

\* ------------------------------------------------------- DeploymentModal
\* the adjust effect slows the timer down after this many polls
PollsBeforeSlowdown == 5
\* the period, in ms, of the slowed-down timer
SlowInterval == 8000

\* newLogs.some(log => log.message?.toLowerCase().includes("done") ||
\* log.log?.toLowerCase().includes("done"))
hasDoneLog(newLogs) ==
    \E i \in 1..Len(newLogs) :
        \/ includes(toLowerCase(newLogs[i].message), sDone)
        \/ includes(toLowerCase(newLogs[i].log), sDone)

\* fetchDeploymentStatus up to its first await: it returns at once unless
\* pollingInterval.current holds a timer, else it sends
\* GET /project/{projectId}/status
fetchDeploymentStatus(s) ==
    IF s.dm.pollingInterval = 0 THEN s
    ELSE send(s, NewReq("status", s.dm.projectId, s.dm.inst, 0,
                        Who("modal", s.dm.inst, 0)))

\* the effect on [pollCount, logs.length]: an existing timer is replaced
\* by a slower one, and lastLogCount follows logs.length
dmAdjust(s) ==
    LET slow == /\ s.dm.pollCount > PollsBeforeSlowdown
                /\ Len(s.dm.logs) = s.dm.lastLogCount
    IN  [s EXCEPT !.dm.pollingInterval =
                      IF slow /\ @ # 0 THEN SlowInterval ELSE @,
                  !.dm.lastLogCount = Len(s.dm.logs)]

shouldStartNewDeployment(deploymentId, isRedeployment, initial, projectId) ==
    /\ deploymentId = 0 /\ ~isRedeployment /\ ~initial
    /\ projectId # 0

\* a DeploymentModal is mounted with these props: startDeployment runs up
\* to its await of POST /deploy, or to its end when nothing is started,
\* and the adjust effect runs
dmMount(s, p, d, isRedeployment, initialDeployment) ==
    IF s.dmCount >= MaxMounts THEN [s EXCEPT !.ok = FALSE]
    ELSE LET i == s.dmCount + 1
             s1 == [s EXCEPT !.dmCount = i,
                             !.dm = [NoDm EXCEPT !.inst = i,
                                                 !.projectId = p,
                                                 !.deploymentId = d]]
             s2 == IF shouldStartNewDeployment(d, isRedeployment,
                                               initialDeployment, p)
                   THEN send(s1, NewReq("deploy", p, i, 0,
                                        Who("modal", i, 0)))
                   ELSE [fetchDeploymentStatus(s1) EXCEPT
                            !.dm.isInitialLoading = FALSE]
         IN  dmAdjust(s2)

\* startDeployment after POST /deploy (request k): a failure is caught and
\* dropped; the setters of an instance that is gone do nothing
startDeploymentResume(s, k) ==
    LET r == s.reqs[k]
        s0 == [s EXCEPT !.reqs[k] = Finished(@, "settled")]
    IN  IF r.resp = "ok" /\ s.dm.inst = r.owner
        THEN [fetchDeploymentStatus(s0) EXCEPT !.dm.isInitialLoading = FALSE]
        ELSE s0

\* onClose: the modal unmounts and its cleanup clears the timer, if any
dmUnmount(s) == [s EXCEPT !.dm = NoDm]

\* ------------------------------------------------------------- the server
\* What the running deployment of a project does between two requests is
\* seen by the client only in a response, so it is modelled at the moment
\* the server answers: adv is "none" (nothing new), "info" (a log entry was
\* written, which only GET /logs shows), or the terminal status the
\* deployment ended with, which comes with its last log entry.
Advances == {"none", "info"} \cup Terminal

canAdvance(q, adv) ==
    \/ adv = "none"
    \/ /\ q \in srvExists
       /\ srvDeps[q] # <<>>
       /\ srvDeps[q][1].status = "running"
       /\ adv = "info" => Len(srvLogs[srvDeps[q][1].id]) < MaxLogs - 1

depsAfter(q, adv) ==
    IF adv \in Terminal THEN [srvDeps EXCEPT ![q][1].status = adv]
    ELSE srvDeps

logsAfter(q, adv) ==
    IF adv = "none" THEN srvLogs
    ELSE [srvLogs EXCEPT ![srvDeps[q][1].id] =
             Append(@, IF adv = "success" THEN DoneEntry
                       ELSE IF adv = "failure" THEN ErrorEntry
                       ELSE InfoEntry)]

\* the project that owns deployment d on the server (0 = none)
ownerOf(d) ==
    IF \E q \in srvExists : \E i \in 1..Len(srvDeps[q]) : srvDeps[q][i].id = d
    THEN CHOOSE q \in srvExists :
            \E i \in 1..Len(srvDeps[q]) : srvDeps[q][i].id = d
    ELSE 0

Answer(k, resp, project, list, jobId, logs) ==
    reqs' = [reqs EXCEPT ![k] = [@ EXCEPT !.state = "answered",
                                          !.resp = resp,
                                          !.project = project,
                                          !.list = list,
                                          !.jobId = jobId,
                                          !.logs = logs]]

\* request k reaches the server, or fails on the way, and its response is
\* on its way back
serverAnswer(k) ==
    /\ k \in 1..Len(reqs)
    /\ reqs[k].state = "sent"
    /\ \E q \in ProjectIds, adv \in Advances :
        LET r == reqs[k]
            deps == depsAfter(q, adv)
            logs == logsAfter(q, adv)
        IN
        /\ canAdvance(q, adv)
        /\ \/ /\ \E f \in Failures : Answer(k, f, NullProject, <<>>, 0, <<>>)
              /\ adv = "none"
              /\ UNCHANGED srvVars
           \/ /\ r.kind = "get"
              /\ r.p \in srvExists
              /\ q = r.p /\ adv # "info"
              /\ Answer(k, "ok", [id |-> r.p, deployments |-> deps[r.p]],
                        <<>>, 0, <<>>)
              /\ srvDeps' = deps /\ srvLogs' = logs
              /\ UNCHANGED <<srvExists, nextJob>>
           \/ /\ r.kind = "list"
              /\ adv # "info"
              /\ Answer(k, "ok", NullProject, srvList(1, srvExists, deps),
                        0, <<>>)
              /\ srvDeps' = deps /\ srvLogs' = logs
              /\ UNCHANGED <<srvExists, nextJob>>
           \/ /\ r.kind = "logs"
              /\ r.arg \in JobIds
              /\ q = ownerOf(r.arg) \/ adv = "none"
              /\ Answer(k, "ok", NullProject, <<>>, 0, logs[r.arg])
              /\ srvDeps' = deps /\ srvLogs' = logs
              /\ UNCHANGED <<srvExists, nextJob>>
           \/ /\ r.kind = "delete"
              /\ r.p \in srvExists
              /\ adv = "none"
              /\ Answer(k, "ok", NullProject, <<>>, 0, <<>>)
              /\ srvExists' = srvExists \ {r.p}
              /\ UNCHANGED <<srvDeps, srvLogs, nextJob>>
           \/ /\ r.kind = "create"
              /\ q \notin srvExists /\ adv = "none"
              /\ Answer(k, "ok", [id |-> q, deployments |-> <<>>],
                        <<>>, 0, <<>>)
              /\ srvExists' = srvExists \cup {q}
              /\ srvDeps' = [srvDeps EXCEPT ![q] = <<>>]
              /\ UNCHANGED <<srvLogs, nextJob>>
           \/ /\ r.kind = "deploy"
              /\ r.p \in srvExists
              /\ q = r.p /\ adv = "none"
              /\ nextJob <= MaxJobId
              /\ Answer(k, "ok", NullProject, <<>>, nextJob, <<>>)
              /\ srvDeps' = [srvDeps EXCEPT ![q] =
                                <<[id |-> nextJob, status |-> "running"]>>
                                \o @]
              /\ nextJob' = nextJob + 1
              /\ UNCHANGED <<srvExists, srvLogs>>
           \/ /\ r.kind = "redeploy"
              /\ ownerOf(r.arg) # 0
              /\ q = ownerOf(r.arg) /\ adv # "info"
              /\ nextJob <= MaxJobId
              /\ \E withId \in BOOLEAN :
                    Answer(k, "ok", NullProject, <<>>,
                           IF withId THEN nextJob ELSE 0, <<>>)
              /\ srvDeps' = [deps EXCEPT ![q] =
                                <<[id |-> nextJob, status |-> "running"]>>
                                \o @]
              /\ srvLogs' = logs
              /\ nextJob' = nextJob + 1
              /\ UNCHANGED srvExists
    /\ UNCHANGED <<projects, rendered, renderPending, projectsChanged,
                   viewPending, isLoading, error, loadingRef,
                   axiosCancelTokens, calls, pd, pdCount, lv, lvCount,
                   lvDone, lvSignals, dm, dmCount, intervals, detLogs,
                   detOut>>

\* ------------------------------------------------------------ the actions
Step(s) == Becomes(s) /\ UNCHANGED srvVars /\ UNCHANGED detVars

Answered(k, kind) ==
    k \in 1..Len(reqs) /\ reqs[k].kind = kind /\ reqs[k].state = "answered"

\* code outside ProjectDetails calls the context, MaxAppCalls times at most
AppMayCall == Len(calls) < MaxAppCalls /\ Len(reqs) < MaxAppCalls

GetProjectById(p) ==
    AppMayCall /\ Step(getProjectByIdCall(Cur, p, App, rendered))

GetSettled(k) == Answered(k, "get") /\ Step(settleGet(Cur, k))

ListSettled(k) == Answered(k, "list") /\ Step(settleList(Cur, k))

DeleteProject(p) == AppMayCall /\ Step(deleteProjectCall(Cur, p, App))

DeleteSettled(k) ==
    /\ Answered(k, "delete")
    /\ Step(IF reqs[k].who.tag = "delete"
            THEN handleDeleteResume(deleteProjectDone(Cur, k), reqs[k])
            ELSE deleteProjectDone(Cur, k))

RedeploySettled(k) ==
    /\ Answered(k, "redeploy")
    /\ Step(IF reqs[k].who.tag = "rebuild"
            THEN handleRebuildResume(rebuildProjectDone(Cur, k), reqs[k])
            ELSE rebuildProjectDone(Cur, k))

RouteChange == Step(routeChange(Cur))

Render ==
    /\ renderPending \/ viewPending
    /\ \E flash \in BOOLEAN : Step(render(Cur, flash))

NavigateToProject(p) == pd.gen = 0 /\ Step(navigateToProject(Cur, p, 0))

\* the application is opened at /project/{p} by a logged-in user: the
\* provider's mount effect calls fetchProjects, AppContent shows
\* "Loading..." first and its route-change effect has run when
\* ProjectDetails mounts
OpenProject(p) ==
    /\ pdCount = 0 /\ calls = <<>> /\ reqs = <<>>
    /\ Step(mountProjectDetails(fetchProjectsCall(Cur), p, 0))

NavigateToDashboard == pd.gen # 0 /\ Step(navigateToDashboard(Cur))

RefreshTick == pd.gen # 0 /\ pd.interval /\ Step(refreshTick(Cur))

\* the user acts on what is on screen: no render is pending
OnScreen == ~renderPending /\ ~viewPending /\ pdShowsMain(pd)

HandleRebuild ==
    OnScreen /\ ~pd.rebuildLoading /\ Step(handleRebuild(Cur))

HandleDeleteProject == OnScreen /\ Step(handleDeleteProject(Cur))

LvTick == lv.inst # 0 /\ lv.pollingRef /\ Step(fetchLogs(Cur))

LogsSettled(k) == Answered(k, "logs") /\ Step(fetchLogsDone(Cur, k))

\* a parent renders <DeploymentModal projectId deploymentId ... />
MountDeploymentModal(p, d) ==
    /\ dm.inst = 0
    /\ \E isRedeployment, initialDeployment \in BOOLEAN :
          Step(dmMount(Cur, p, d, isRedeployment, initialDeployment))

DeploySettled(k) ==
    /\ Answered(k, "deploy")
    /\ Step(IF reqs[k].who.tag = "modal" THEN startDeploymentResume(Cur, k)
            ELSE createProjectDeployed(Cur, k))

FetchProjects == AppMayCall /\ Step(fetchProjectsCall(Cur))

CreateProject == AppMayCall /\ Step(createProjectCall(Cur, App))

CreateSettled(k) == Answered(k, "create") /\ Step(createProjectDone(Cur, k))

RebuildProject(p) ==
    AppMayCall /\ Step(rebuildProjectCall(Cur, p, App, rendered))

CloseDeploymentModal == dm.inst # 0 /\ Step(dmUnmount(Cur))

\* the application is opened at /dashboard: the mount effects of the
\* provider and of the Dashboard call fetchProjects
MountDashboard ==
    /\ pdCount = 0 /\ dmCount = 0 /\ calls = <<>> /\ reqs = <<>>
    /\ Step(fetchProjectsCall(fetchProjectsCall(Cur)))

Requests == 1..MaxReqs

\* the context under arbitrary callers, with the route changes of AppContent
NextCache ==
    \/ \E p \in ProjectIds : GetProjectById(p)
    \/ \E k \in Requests : GetSettled(k)
    \/ \E p \in ProjectIds : DeleteProject(p)
    \/ \E k \in Requests : DeleteSettled(k)
    \/ RouteChange
    \/ Render
    \/ \E k \in Requests : serverAnswer(k)

Spec == Init /\ [][NextCache]_vars

\* getProjectById alone: concurrent calls, responses, route changes
NextGet ==
    \/ \E p \in ProjectIds : GetProjectById(p)
    \/ \E k \in Requests : GetSettled(k)
    \/ RouteChange
    \/ Render
    \/ \E k \in Requests : serverAnswer(k)

SpecGet == Init /\ [][NextGet]_vars

\* a user watching a deployment: the ProjectDetails page with its LogViewer,
\* and the dashboard
NextView ==
    \/ \E p \in ViewedIds : OpenProject(p)
    \/ \E p \in ViewedIds : NavigateToProject(p)
    \/ NavigateToDashboard
    \/ RefreshTick
    \/ LvTick
    \/ \E k \in Requests : LogsSettled(k)
    \/ \E k \in Requests : GetSettled(k)
    \/ \E k \in Requests : ListSettled(k)
    \/ Render
    \/ \E k \in Requests : serverAnswer(k)

SpecView == Init /\ [][NextView]_vars

\* the same with the Rebuild and Delete buttons of ProjectDetails
NextPage ==
    \/ NextView
    \/ HandleRebuild
    \/ HandleDeleteProject
    \/ \E k \in Requests : DeleteSettled(k)
    \/ \E k \in Requests : RedeploySettled(k)

SpecPage == Init /\ [][NextPage]_vars

\* the dashboard with a DeploymentModal over it
NextModal ==
    \/ MountDashboard
    \/ \E p \in ViewedIds, d \in {0, 1} : MountDeploymentModal(p, d)
    \/ \E k \in Requests : DeploySettled(k)
    \/ CloseDeploymentModal
    \/ \E k \in Requests : ListSettled(k)
    \/ Render
    \/ \E k \in Requests : serverAnswer(k)

SpecModal == Init /\ [][NextModal]_vars

\* the operations of the context under arbitrary callers
NextOps ==
    \/ \E p \in ViewedIds : GetProjectById(p)
    \/ \E k \in Requests : GetSettled(k)
    \/ FetchProjects
    \/ \E k \in Requests : ListSettled(k)
    \/ CreateProject
    \/ \E k \in Requests : CreateSettled(k)
    \/ \E k \in Requests : DeploySettled(k)
    \/ \E p \in ViewedIds : RebuildProject(p)
    \/ \E k \in Requests : RedeploySettled(k)
    \/ \E p \in ViewedIds : DeleteProject(p)
    \/ \E k \in Requests : DeleteSettled(k)
    \/ Render
    \/ \E k \in Requests : serverAnswer(k)

SpecOps == InitOps /\ [][NextOps]_vars

\* the ProjectDetails page of a project while other code calls
\* getProjectById for the other projects
NextRoam ==
    \/ \E p \in ViewedIds : OpenProject(p)
    \/ \E p \in ViewedIds : NavigateToProject(p)
    \/ NavigateToDashboard
    \/ \E p \in ProjectIds \ ViewedIds : GetProjectById(p)
    \/ HandleDeleteProject
    \/ \E k \in Requests : DeleteSettled(k)
    \/ \E k \in Requests : GetSettled(k)
    \/ \E k \in Requests : ListSettled(k)
    \/ \E k \in Requests : LogsSettled(k)
    \/ Render
    \/ \E k \in Requests : serverAnswer(k)

SpecRoam == Init /\ [][NextRoam]_vars

\* Requests that are over and calls that have returned are read by no
\* handler; once none is outstanding they are dropped, so that a session
\* that polls for ever is a cycle of states.
forget(s) ==
    IF /\ \A k \in 1..Len(s.reqs) : ~Outstanding(s.reqs[k])
       /\ \A c \in 1..Len(s.calls) : s.calls[c].outcome # "pending"
       /\ \A p \in ProjectIds : s.loadingRef[p] = 0
    THEN [s EXCEPT !.reqs = <<>>, !.calls = <<>>, !.axiosCancelTokens = {}]
    ELSE s

\* the responses of the earlier requests have been processed and
\* rendered: the network and React are faster than the timers
Quiet ==
    /\ \A k \in 1..Len(reqs) : ~Outstanding(reqs[k])
    /\ ~renderPending /\ ~viewPending

\* the firing of the LogViewer timer and of the refreshInterval
LvTimer ==
    Quiet /\ lv.inst # 0 /\ lv.pollingRef /\ Step(fetchLogs(forget(Cur)))

RefreshTimer ==
    Quiet /\ pd.gen # 0 /\ pd.interval /\ Step(refreshTick(forget(Cur)))

\* React commits the pending updates
Commit ==
    /\ renderPending \/ viewPending
    /\ \E flash \in BOOLEAN : Step(render(forget(Cur), flash))

\* request k is answered by the server without a failure
serverOk(k) == serverAnswer(k) /\ reqs'[k].resp = "ok"

\* one visit of a project page, left open for as long as it takes
NextLive ==
    \/ \E p \in ViewedIds : OpenProject(p)
    \/ LvTimer
    \/ RefreshTimer
    \/ \E k \in Requests : LogsSettled(k)
    \/ \E k \in Requests : GetSettled(k)
    \/ \E k \in Requests : ListSettled(k)
    \/ Commit
    \/ \E k \in Requests : serverAnswer(k)

\* the timers fire; the network does not fail for ever; every response is
\* processed and rendered before long, so the page is quiet again and
\* again
Fairness ==
    /\ WF_vars(LvTimer)
    /\ WF_vars(RefreshTimer)
    /\ SF_vars(\E k \in Requests : serverOk(k))
    /\ []<>Quiet

SpecLive == Init /\ [][NextLive]_vars /\ Fairness

\* the completion detectors applied to lists of log entries
MaxEntries == 2
DetMessages ==
    {<<>>, sDone, <<"D", "O", "N", "E">>,
     <<"B", "u", "i", "l", "d", " ", "D", "o", "n", "e", ".">>,
     sCompleted, <<"C", "o", "m", "p", "l", "e", "t", "e", "d", " ",
                   "S", "u", "c", "c", "e", "s", "s", "f", "u", "l", "l", "y">>,
     sError}
DetLogTexts == {<<>>, sDone, sInfo}
DetEntries == {LogEntry(m, l) : m \in DetMessages, l \in DetLogTexts}
DetInputs ==
    UNION {[1..n -> DetEntries] : n \in 0..MaxEntries}

InitDetect == InitApp /\ detLogs \in DetInputs /\ detOut = NoOut

Detect ==
    /\ ~detOut.ran
    /\ detOut' = [ran |-> TRUE, isDone |-> isDone(detLogs),
                  hasDoneLog |-> hasDoneLog(detLogs)]
    /\ UNCHANGED <<detLogs, clientVars, srvVars>>

NextDetect == Detect

SpecDetect == InitDetect /\ [][NextDetect]_vars

\* ------------------------------------------------------------ properties
\* the getProjectById(p) calls that have not settled
waiting(p) ==
    {c \in 1..Len(calls) : calls[c].id = p /\ calls[c].outcome = "pending"}

\* the GET /project/{p} requests that have not settled
fetches(p) ==
    {k \in 1..Len(reqs) :
        reqs[k].kind = "get" /\ reqs[k].p = p /\ Outstanding(reqs[k])}

\* C1: for N >= 1 getProjectById(id) calls made while the project is not
\* cached and before the first call's fetch settles, exactly one
\* GET /project/{id} is issued (all the waiting calls await the one
\* outstanding request), and on success all of them resolve with the same
\* project value.
C1_SingleFlight ==
    \A p \in ProjectIds :
        /\ waiting(p) # {} =>
              \E k \in fetches(p) :
                  /\ fetches(p) = {k}
                  /\ \A c \in waiting(p) : calls[c].req = k
        /\ \A c, d \in 1..Len(calls) :
              (/\ calls[c].id = p /\ calls[c].req # 0
               /\ calls[d].req = calls[c].req
               /\ calls[c].outcome = "value")
              => calls[d].outcome = "value" /\ calls[d].val = calls[c].val

\* C2: in every reachable state, under any interleaving of getProjectById
\* calls, deleteProject calls and settlements, at most one GET /project/{id}
\* is outstanding per project id.
C2_AtMostOneOutstanding ==
    \A p \in ProjectIds : Cardinality(fetches(p)) <= 1

\* C3: when GET /project/{id} fails (transport error or a status other than
\* "success"), every caller waiting on it is rejected with that error, and
\* after the settlement loadingRef holds no entry for id, so that the next
\* getProjectById(id) that finds nothing cached issues a fresh request.
C3_FailureRejectsAll ==
    [][ /\ \A k \in 1..Len(reqs) :
              (/\ reqs[k].kind = "get" /\ reqs[k].state = "answered"
               /\ reqs[k].resp \in Failures
               /\ reqs'[k].state = "settled")
              => /\ \A c \in 1..Len(calls) :
                       calls[c].req = k /\ calls[c].outcome = "pending"
                       => /\ calls'[c].outcome = "error"
                          /\ calls'[c].err = reqs[k].resp
                 /\ loadingRef'[reqs[k].p] = 0
        /\ \A p \in ProjectIds :
              (/\ Len(calls') = Len(calls) + 1
               /\ calls'[Len(calls')].id = p
               /\ loadingRef[p] = 0 /\ ~Has(rendered, p))
              => /\ Len(reqs') = Len(reqs) + 1
                 /\ reqs'[Len(reqs')].kind = "get"
                 /\ reqs'[Len(reqs')].p = p
                 /\ loadingRef'[p] = Len(reqs') ]_vars

\* two callers were rejected with the error of their fetch, and a later
\* call for the same project has a request of its own
C3_Witness ==
    \E c, d, e \in 1..Len(calls) :
        /\ c < d /\ d < e
        /\ calls[c].req = calls[d].req
        /\ calls[c].outcome = "error" /\ calls[d].outcome = "error"
        /\ calls[c].err \in Failures /\ calls[d].err = calls[c].err
        /\ calls[e].id = calls[c].id /\ calls[e].role = "init"
        /\ calls[e].req # calls[c].req

\* C4: when an in-flight GET /project/{id} is cancelled, every caller
\* awaiting it, the initiating one and the deduplicated ones, resolves with
\* null and none is rejected.
C4_CancelResolvesNull ==
    \A c \in 1..Len(calls) :
        (calls[c].req # 0 /\ reqs[calls[c].req].state = "cancelled")
        => calls[c].outcome = "null"

\* the statuses a project holds for job j
statusOfJob(project, j) ==
    {project.deployments[n].status :
        n \in {m \in 1..Len(project.deployments) :
                  project.deployments[m].id = j}}

\* the statuses a list of projects holds for job j
cacheHolds(list, j) ==
    UNION {statusOfJob(list[i], j) : i \in 1..Len(list)}

\* C5: once the cached projects list, or the local project of
\* ProjectDetails, holds status success or failure for a job id, it does
\* not hold status running for that job id afterwards.
C5_NoRevert ==
    [][ \A j \in JobIds :
          /\ cacheHolds(projects, j) \cap Terminal # {}
                => "running" \notin cacheHolds(projects', j)
          /\ statusOfJob(pd.project, j) \cap Terminal # {}
                => "running" \notin statusOfJob(pd'.project, j) ]_vars

\* the GET /logs requests of LogViewer instance i that have not settled
logFetches(i) ==
    {k \in 1..Len(reqs) :
        reqs[k].kind = "logs" /\ reqs[k].owner = i /\ Outstanding(reqs[k])}

\* C6: within one polling session (one mounted LogViewer) completion is
\* signalled at most once: the first processed response whose logs hold a
\* completion marker calls updateProjectStatus, and no later response of
\* that LogViewer does, also when fetches overlap or the effect re-runs.
C6_SignalledOnce ==
    /\ [](\A i \in 1..MaxMounts : lvSignals[i] <= 1)
    /\ [][ \A k \in 1..Len(reqs) :
              (/\ reqs[k].kind = "logs" /\ reqs[k].state = "answered"
               /\ reqs'[k].state = "settled"
               /\ reqs[k].resp = "ok" /\ isDone(reqs[k].logs)
               /\ reqs[k].p # 0)
              => /\ lvSignals'[reqs[k].owner] = 1
                 /\ reqs[k].owner \in lvDone'
                 /\ lvSignals[reqs[k].owner] = 0
                       => /\ cacheHolds(projects', reqs[k].arg)
                                \subseteq {"success"}
                          /\ renderPending' ]_vars

\* a LogViewer signalled completion, its effect ran again, and the response
\* of the fetch made after the detection was processed without a second
\* signal
C6_Witness ==
    /\ lv.inst # 0 /\ lv.inst \in lvDone
    /\ lvSignals[lv.inst] = 1
    /\ lv.pollingRef /\ lv.error = "none" /\ isDone(lv.logs)
    /\ logFetches(lv.inst) = {}

\* C7: once a mounted LogViewer has detected completion it sends no further
\* GET /logs while it stays mounted, also after the provider re-renders
\* because of the updateProjectStatus call that the detection makes.
C7_NoFetchAfterDone ==
    [][ \A k \in 1..Len(reqs') :
          (k > Len(reqs) /\ reqs'[k].kind = "logs")
          => reqs'[k].owner \notin lvDone ]_vars

\* C8: for each polling session at most one tick's fetch is outstanding at
\* any time.
C8_OneTickOutstanding ==
    \A i \in 1..MaxMounts : Cardinality(logFetches(i)) <= 1

\* the polling timers that are active for deployment j
timersFor(j) ==
    (IF lv.inst # 0 /\ lv.dep = j /\ lv.pollingRef THEN 1 ELSE 0)
    + (IF pd.gen # 0 /\ pd.interval /\ latestId(pd.project) = j
       THEN 1 ELSE 0)

\* C9: with the watchers of one deployment mounted at once (a LogViewer and
\* the refresh effect of ProjectDetails for the running project), exactly
\* one polling timer is active for that deployment.
C9_SinglePoller ==
    \A j \in JobIds : timersFor(j) <= 1

\* C10: mounting a LogViewer for a deployment whose cached status is
\* terminal sends no GET /logs.
C10_NoFetchOnReattach ==
    [][ \A k \in 1..Len(reqs') :
          (/\ k > Len(reqs) /\ reqs'[k].kind = "logs"
           /\ lvCount' = lvCount + 1)
          => cacheHolds(projects, reqs'[k].arg) \cap Terminal = {} ]_vars

\* a DeploymentModal that has started and neither finished nor failed
dmPolling ==
    dm.inst # 0 /\ ~dm.isInitialLoading /\ ~dm.deploymentFinished
    /\ dm.error = "none"

\* C11: a polling DeploymentModal keeps a timer; after more than 5 polls
\* during which the log count did not change the timer runs at 8000 ms,
\* and otherwise (from the start, and again once new log content came) at
\* the base interval.
C11_AdaptiveInterval ==
    dmPolling =>
        /\ dm.pollingInterval # 0
        /\ dm.pollingInterval = SlowInterval
              <=> (/\ dm.pollCount > PollsBeforeSlowdown
                   /\ Len(dm.logs) = dm.lastLogCount)

\* the text of a log entry: its message, or its log field when it has no
\* message
textOf(log) == IF log.message # <<>> THEN log.message ELSE log.log

\* some entry's text, compared case-insensitively, contains "done" or
\* "completed successfully"
hasMarker(entries) ==
    \E i \in 1..Len(entries) :
        \/ includes(toLowerCase(textOf(entries[i])), sDone)
        \/ includes(toLowerCase(textOf(entries[i])), sCompleted)

\* C12: for every list of log entries, isDone of LogViewer and hasDoneLog
\* of DeploymentModal both return true exactly when some entry's message,
\* compared case-insensitively, contains "done" or "completed successfully".
C12_DetectorsAgree ==
    detOut.ran => /\ detOut.isDone = hasMarker(detLogs)
                  /\ detOut.hasDoneLog = hasMarker(detLogs)

\* C13: for getProjectById, fetchProjects, createProject, rebuildProject
\* and deleteProject: when a response arrives whose status field is not
\* "success", the operation rejects with an error (the context error is
\* set, the waiting getProjectById callers are rejected) and the cached
\* projects list is left as it was.
C13_AppFailureKeepsCache ==
    [][ \A k \in 1..Len(reqs) :
          (/\ reqs[k].state = "answered" /\ reqs[k].resp = "app"
           /\ reqs[k].kind \in {"get", "list", "create", "deploy",
                                 "redeploy", "delete"}
           /\ reqs[k].who.tag # "modal"
           /\ reqs'[k].state = "settled")
          => /\ projects' = projects
             /\ error' = "app"
             /\ \A c \in 1..Len(calls) :
                   (calls[c].req = k /\ calls[c].outcome = "pending")
                   => calls'[c].outcome = "error" ]_vars

\* fetchProjects filled the cache and a deleteProject(1) was then refused
\* by the server: the cache still holds project 1
C13_Witness ==
    /\ Len(reqs) = 2
    /\ reqs[1].kind = "list" /\ reqs[1].state = "settled"
    /\ reqs[2].kind = "delete" /\ reqs[2].state = "settled"
    /\ error = "app" /\ ~isLoading
    /\ Has(projects, 1) /\ 1 \in srvExists

\* a GET /logs request is issued in this step by the mounted LogViewer
lvSends ==
    /\ lv.inst # 0 /\ lv'.inst = lv.inst
    /\ \E k \in 1..Len(reqs') :
          k > Len(reqs) /\ reqs'[k].kind = "logs" /\ reqs'[k].owner = lv.inst

\* C14: after a tick of a LogViewer failed with a transport error no
\* request is issued at once and the timer stays scheduled, so the next
\* request is issued at, and only at, the next firing of the timer; the
\* timer ends only on detected completion or unmount.
C14_RetryOnNextTick ==
    /\ [][ \A k \in 1..Len(reqs) :
              (/\ reqs[k].kind = "logs" /\ reqs[k].state = "answered"
               /\ reqs[k].resp = "net" /\ reqs'[k].state = "settled")
              => /\ Len(reqs') = Len(reqs)
                 /\ lv'.inst = lv.inst /\ lv'.pollingRef = lv.pollingRef
          ]_vars
    /\ [][ (lv.error = "net" /\ lvSends) => LvTick ]_vars
    /\ [][ (lv.inst # 0 /\ lv.pollingRef /\ ~lv'.pollingRef)
              => (lv'.inst # lv.inst \/ lv.inst \in lvDone') ]_vars

\* what the LogViewer renders: the spinner, the error box, the "no logs"
\* text or the list of log entries
lvView(v) ==
    IF v.isLoading /\ Len(v.logs) = 0 THEN "loading"
    ELSE IF v.error # "none" THEN "error"
    ELSE IF Len(v.logs) = 0 THEN "empty"
    ELSE "logs"

\* C15: a mounted LogViewer that holds at least one log entry displays its
\* entries, also after a tick whose fetch failed and after a later
\* successful tick.
C15_LogsStayVisible ==
    (lv.inst # 0 /\ Len(lv.logs) > 0) => lvView(lv) = "logs"

\* request k is aborted in this step
cancelledNow(k) == Outstanding(reqs[k]) /\ reqs'[k].state = "cancelled"

\* the DELETE requests of handleDeleteProject whose response is processed
\* in this step
deletesResumed ==
    {j \in 1..Len(reqs) :
        /\ reqs[j].kind = "delete" /\ reqs[j].who.tag = "delete"
        /\ reqs[j].state = "answered" /\ reqs'[j].state = "settled"}

\* C16: a cancellation made on behalf of a project A (by handleDeleteProject
\* of A, or by a route change away from the page of A) aborts no in-flight
\* request issued for another purpose, such as a getProjectById for another
\* project B or the GET /projects list request.
C16_CancelOwnOnly ==
    [][ \A k \in 1..Len(reqs) :
          cancelledNow(k) =>
            /\ \A j \in deletesResumed :
                  reqs[k].kind = "get" /\ reqs[k].p = reqs[j].p
            /\ (deletesResumed = {} /\ pd.gen # 0 /\ pd'.gen # pd.gen)
                  => (reqs[k].kind = "get" /\ reqs[k].p = pd.id) ]_vars

\* C17: a LogViewer mounted with a deploymentId issues one GET /logs at
\* once and then one per firing of its fixed 5000 ms timer until it stops:
\* every GET /logs is sent by the mount or by a firing of the timer.
C17_FetchOnMountAndTicks ==
    [][ (\E k \in 1..Len(reqs') : k > Len(reqs) /\ reqs'[k].kind = "logs")
          => (lvCount' = lvCount + 1 \/ LvTick) ]_vars

\* C18: when a LogViewer watching deployment D detects completion, the
\* cached job with id D is set to success and no other cached job changes,
\* also when D is not the first deployment of its project.
C18_UpdatesWatchedJob ==
    [][ \A k \in 1..Len(reqs) :
          (/\ reqs[k].kind = "logs" /\ reqs[k].state = "answered"
           /\ reqs'[k].state = "settled" /\ lvSignals' # lvSignals)
          => /\ \A j \in JobIds \ {reqs[k].arg} :
                   cacheHolds(projects', j) = cacheHolds(projects, j)
             /\ cacheHolds(projects, reqs[k].arg) # {}
                   => cacheHolds(projects', reqs[k].arg) = {"success"} ]_vars

\* sequence a is an initial part of sequence b
isPrefix(a, b) == Len(a) <= Len(b) /\ SubSeq(b, 1, Len(a)) = a

\* C19: the logs held by one mounted LogViewer only grow: each update
\* keeps the entries held before as an initial part of the new list, also
\* when responses are processed out of order.
C19_LogsOnlyGrow ==
    [][ (lv.inst # 0 /\ lv'.inst = lv.inst) => isPrefix(lv.logs, lv'.logs)
      ]_vars

\* the latest deployment of the viewed project is over on the server
jobOver == \A p \in ViewedIds : srvDeps[p][1].status \in Terminal

\* no poller of the page holds a timer
pollersStopped ==
    /\ ~(lv.inst # 0 /\ lv.pollingRef)
    /\ ~(pd.gen # 0 /\ pd.interval)

\* C20: if the server job reaches a terminal status then, under fair
\* scheduling, every poller (the 5000 ms timer of LogViewer, the 10000 ms
\* refresh timer of ProjectDetails) eventually stops while mounted.
C20_PollersStop == <>[](jobOver => pollersStopped)

\* the component instance that owns interval t is on screen
timerMounted(t) ==
    \/ t[1] = "lv" /\ lv.inst # 0 /\ t[2] = lv.inst
    \/ t[1] = "pd" /\ pd.gen # 0 /\ t[2] = pd.gen

\* request r was issued by a component instance that was on screen neither
\* before nor after the step, nor mounted during it
strayRequest(r) ==
    \/ /\ r.kind = "logs"
       /\ r.owner \notin {lv.inst, lv'.inst} \cup (lvCount + 1)..lvCount'
    \/ /\ r.who.tag \in {"load", "refresh", "rebuild", "delete"}
       /\ r.who.gen \notin {pd.gen, pd'.gen} \cup (pdCount + 1)..pdCount'
    \/ /\ r.who.tag = "modal"
       /\ r.who.gen \notin {dm.inst, dm'.inst} \cup (dmCount + 1)..dmCount'

\* C21: after a polling component (LogViewer, DeploymentModal,
\* ProjectDetails with its refresh interval) is unmounted its timer is
\* cancelled: every live interval belongs to a mounted instance, so no tick
\* of an unmounted one fires, and no request is issued by an unmounted one.
C21_NoTickAfterUnmount ==
    /\ [](\A t \in intervals : timerMounted(t))
    /\ [][ \A k \in 1..Len(reqs') :
              k > Len(reqs) => ~strayRequest(reqs'[k]) ]_vars

\* ProjectDetails and its LogViewer, which had its interval, have left the
\* screen while a GET /logs of that LogViewer is still in flight
C21_Witness ==
    /\ pdCount > 0 /\ pd.gen = 0 /\ lvCount > 0 /\ lv.inst = 0
    /\ intervals = {}
    /\ \E k \in 1..Len(reqs) : reqs[k].kind = "logs" /\ Outstanding(reqs[k])

\* getProjectById call c, made by handleRebuild, settles in this step
rebuildReturns(c) ==
    /\ calls[c].who.tag = "rebuild"
    /\ calls[c].outcome = "pending"
    /\ c <= Len(calls') /\ calls'[c].outcome # "pending"

\* call c is a getProjectById call of handleRebuild that is made and
\* returns within this step
rebuildReturnsAtOnce(c) ==
    /\ c > Len(calls)
    /\ calls'[c].who.tag = "rebuild" /\ calls'[c].outcome = "value"

errorTick(k) ==
    /\ Answered(k, "logs") /\ reqs[k].resp = "ok"
    /\ k <= Len(reqs') /\ reqs'[k] # reqs[k]
    /\ hasErrorLog(reqs[k].logs) /\ ~isDone(reqs[k].logs)

\* C23: a tick whose logs hold an entry with "error" in its message but no
\* completion marker does not end the session: the poller keeps its timer,
\* no completion is signalled and the cached job status is not changed.
C23_ErrorKeepsPolling ==
    [][ \A k \in 1..Len(reqs) :
           errorTick(k) =>
              /\ intervals' = intervals
              /\ lvSignals' = lvSignals /\ lvDone' = lvDone
              /\ projects' = projects
              /\ lv.inst = reqs[k].owner =>
                    /\ lv'.pollingRef = lv.pollingRef
                    /\ lv'.pollingActive = lv.pollingActive
      ]_vars

\* the mounted LogViewer shows an error entry and no completion marker and
\* still polls, and the cache still has the job running
C23_Witness ==
    /\ lv.inst # 0 /\ lv.pollingRef /\ <<"lv", lv.inst>> \in intervals
    /\ hasErrorLog(lv.logs) /\ ~isDone(lv.logs)
    /\ lv.inst \notin lvDone
    /\ Has(projects, lv.pid) /\ latestStatus(Find(projects, lv.pid)) = "running"

\* a GET /project/{projectId}/status of the mounted DeploymentModal has
\* left the client
dmStatusFetched ==
    \E k \in 1..Len(reqs) : reqs[k].kind = "status" /\ reqs[k].p = dm.projectId

\* C24: after a DeploymentModal mounts, whether or not it started a new
\* deployment, fetchDeploymentStatus issues GET /project/{projectId}/status
\* and then GET /logs/{deploymentId}, and the polling of both continues on a
\* timer: once startDeployment is past its call of fetchDeploymentStatus
\* the status request has been sent and the modal holds a timer.
C24_ModalFetchesAndPolls ==
    dmPolling => dmStatusFetched /\ dm.pollingInterval # 0

\* a DeploymentModal mounts in this step with a projectId and no
\* deploymentId, for a project whose latest deployment the cache, as
\* rendered, has running: the case of the View Logs button of Dashboard
viewLogsMount ==
    /\ dm.inst = 0 /\ dm'.inst # 0
    /\ dm'.projectId # 0 /\ dm'.deploymentId = 0
    /\ latestStatus(Find(rendered, dm'.projectId)) = "running"

\* C25: mounting DeploymentModal with a projectId and no deploymentId for a
\* project whose latest deployment is already running attaches to the
\* existing deployment: the mount issues no POST /deploy.
C25_ViewLogsAttaches ==
    [][ viewLogsMount =>
           \A k \in 1..Len(reqs') : k > Len(reqs) => reqs'[k].kind # "deploy"
      ]_vars

\* the entries of the cached list that have id p
entriesOf(list, p) == {i \in 1..Len(list) : list[i].id = p}

\* C26: the cached projects list holds at most one entry per project id,
\* under any interleaving of the getProjectById upsert, the createProject
\* append and the fetchProjects replacement.
C26_OneEntryPerId ==
    \A p \in ProjectIds : Cardinality(entriesOf(projects, p)) <= 1

\* a deleteProject(p) has succeeded and returned: the server no longer has
\* the project and no DELETE /projects/{p} is on its way
deleteSucceeded(p) ==
    /\ p \notin srvExists
    /\ \E k \in 1..Len(reqs) :
          reqs[k].kind = "delete" /\ reqs[k].p = p /\ reqs[k].state = "settled"
    /\ \A k \in 1..Len(reqs) :
          reqs[k].kind = "delete" /\ reqs[k].p = p => ~Outstanding(reqs[k])

\* the response of a GET /projects is processed in this step
listSettles ==
    \E k \in 1..Len(reqs) :
        /\ Answered(k, "list")
        /\ k <= Len(reqs') /\ reqs'[k].state = "settled"

\* C27: after deleteProject(id) succeeded the cache has no entry with that id
\* unless a later fetchProjects response lists it; in particular a
\* getProjectById(id) fetch that was in flight does not put it back when it
\* settles.
C27_DeletedStaysOut ==
    [][ \A p \in ProjectIds :
           (deleteSucceeded(p) /\ ~Has(projects, p) /\ Has(projects', p))
           => listSettles ]_vars

\* request r of a context operation (getProjectById, fetchProjects,
\* createProject, rebuildProject, deleteProject: each calls
\* setIsLoading(true) before it sends) is still outstanding
ctxOutstanding(r) ==
    /\ Outstanding(r)
    /\ \/ r.kind \in {"get", "list", "create", "redeploy", "delete"}
       \/ r.kind = "deploy" /\ r.who.tag # "modal"

\* C28: the context's isLoading is true in every state in which at least
\* one context request is outstanding; it becomes false only when the last
\* one has settled.
C28_LoadingWhileOutstanding ==
    (\E k \in 1..Len(reqs) : ctxOutstanding(reqs[k])) => isLoading

\* some getProjectById call has not returned yet
getPending == \E c \in 1..Len(calls) : calls[c].outcome = "pending"

\* C29: every cancel function getProjectById registers is removed from
\* window.axiosCancelTokens once that call has settled, for initiating and
\* deduplicated calls alike: the list holds the cancel functions of pending
\* calls only, and none when no getProjectById call is pending.
C29_TokensOfPendingOnly ==
    /\ \A c \in axiosCancelTokens :
          c \in 1..Len(calls) /\ calls[c].outcome = "pending"
    /\ ~getPending => axiosCancelTokens = {}

\* ProjectDetails renders "Project Not Found": not loading, no project
pdShowsNotFound(d) == d.gen # 0 /\ ~d.isLoading /\ d.project = NullProject

\* a ProjectDetails mounts in this step for a project that the provider's
\* projects do not hold
mountsUncached ==
    pd.gen = 0 /\ pd'.gen # 0 /\ ~Has(rendered, pd'.id)

\* the GET /project/{id} of the mount effect of the ProjectDetails on
\* screen after the step is outstanding after the step
ownFetchAlive ==
    \E k \in 1..Len(reqs') :
        /\ k > Len(reqs)
        /\ reqs'[k].kind = "get" /\ reqs'[k].p = pd'.id
        /\ Outstanding(reqs'[k])

\* C30: a route change cancels only the getProjectById requests issued
\* before the navigation: the request the newly mounted ProjectDetails
\* issues in its own mount effect for an uncached project is not cancelled
\* by the route-change effect of the same navigation, so the view does not
\* become "Project Not Found".
C30_OwnFetchSurvives ==
    [][ mountsUncached => ownFetchAlive /\ ~pdShowsNotFound(pd') ]_vars

====
